---- MODULE Spec2Model ----
(***************************************************************************)
(* Model of the Politecnico di Torino collaborations dashboard scripts:    *)
(*   python_scripts/build_collaborations.py  (resolver, aggregator, main)  *)
(*   python_scripts/build_all_datasets.py    (dataset deduplicator)        *)
(*                                                                         *)
(* Representation of Python values:                                        *)
(*   - a falsy string-like value (None, a missing key, "") is the empty    *)
(*     string "" ; a falsy publication year (None, 0) is 0;                *)
(*   - an institution id is the sequence of its characters, so that        *)
(*     rsplit("/", 1)[-1] is computed and not assumed; a missing id is the *)
(*     empty sequence;                                                     *)
(*   - an insertion-ordered dict is the sequence of its items;             *)
(*   - a JSON list given as country_code by the institution endpoint, a    *)
(*     truthy value that cannot be hashed, is the value ListCode.          *)
(***************************************************************************)
EXTENDS Integers, Sequences, FiniteSets, TLC

\* Bound on the number of works in the input list.
MaxWorks == 2

ROR_POLITO == "https://ror.org/00bgk9508"

ROR_OTHER == "https://ror.org/other"

(***************************************************************************)
(* Input domain: institutions, authorship layouts, works, HTTP responses.  *)
(***************************************************************************)
\* An institution is the dict of the work payload.  "id" holds the characters
\* of inst.get("id") and id_none tells that inst.get("id") is None (the key is
\* missing or null): None and the string "" are both falsy but are different
\* members of a key tuple.
Polito == [id |-> <<"o", "/", "9">>, ror |-> ROR_POLITO,
           country_code |-> "IT", display_name |-> "P", id_none |-> FALSE]

\* external institution with an embedded country code
ExtF == [id |-> <<"o", "/", "1">>, ror |-> ROR_OTHER,
         country_code |-> "FR", display_name |-> "F", id_none |-> FALSE]

\* external institution without country code; same short id as ExtF
ExtL == [id |-> <<"1">>, ror |-> "",
         country_code |-> "", display_name |-> "L", id_none |-> FALSE]

\* external institution without country code, another short id
ExtM == [id |-> <<"o", "/", "2">>, ror |-> ROR_OTHER,
         country_code |-> "", display_name |-> "M", id_none |-> FALSE]

\* external institution without id and without country code
ExtN == [id |-> <<>>, ror |-> "", country_code |-> "", display_name |-> "",
         id_none |-> TRUE]

\* external institutions with an embedded country code and a falsy id: no
\* "id" (None) and the id ""
ExtNoneF == [id |-> <<>>, ror |-> "", country_code |-> "FR",
             display_name |-> "F", id_none |-> TRUE]
ExtEmptyF == [id |-> <<>>, ror |-> ROR_OTHER, country_code |-> "FR",
              display_name |-> "F", id_none |-> FALSE]

InstPool == {Polito, ExtF, ExtL, ExtM, ExtN, ExtNoneF, ExtEmptyF}

\* each layout is the "authorships" list of a work: a list of lists of
\* institutions.  These layouts are combined with every work description.
AuthorshipsPool ==
  { << <<ExtF>>, <<ExtL>> >>,
    << <<Polito, ExtL>>, <<ExtF, ExtN>> >>,
    << <<Polito>>, <<>>, <<Polito>> >> }

\* layouts with a repeated institution or several lookups; they are combined
\* with one work description
RepeatingAuthorshipsPool ==
  { << <<ExtL>>, <<Polito, ExtL>> >>,
    << <<Polito, ExtF>>, <<ExtL, ExtM>> >>,
    << <<Polito, ExtM>>, <<ExtF>>, <<ExtF>> >>,
    << <<Polito, ExtNoneF>>, <<ExtEmptyF>>, <<ExtNoneF>> >> }

\* (id, display_name, title, publication_year) of a work: a missing id, an
\* id with two different descriptions, and a second id
WorkHeads ==
  { [id |-> "",   display_name |-> "A", title |-> "B", publication_year |-> 2021],
    [id |-> "w1", display_name |-> "A", title |-> "B", publication_year |-> 2021],
    [id |-> "w1", display_name |-> "",  title |-> "B", publication_year |-> 0],
    [id |-> "w2", display_name |-> "A", title |-> "",  publication_year |-> 2020] }

WorkPool ==
  { [id |-> h.id, display_name |-> h.display_name, title |-> h.title,
     publication_year |-> h.publication_year, authorships |-> a] :
       h \in WorkHeads, a \in AuthorshipsPool }
  \cup
  { [id |-> "w1", display_name |-> "A", title |-> "B",
     publication_year |-> 2021, authorships |-> a] :
       a \in RepeatingAuthorshipsPool }

\* the body {"country_code": ["FR"]}: data.get("country_code") is a list
ListCode == "['FR']"

\* hash(value) succeeds: what a set member or a dict key needs
Hashable(value) == value # ListCode

\* outcome of requests.get(url, timeout=10) followed by resp.json()
Responses ==
  { [raises |-> TRUE,  status |-> 0,   json_ok |-> FALSE, has_cc |-> FALSE, country_code |-> ""],
    [raises |-> FALSE, status |-> 404, json_ok |-> TRUE,  has_cc |-> FALSE, country_code |-> ""],
    [raises |-> FALSE, status |-> 200, json_ok |-> FALSE, has_cc |-> FALSE, country_code |-> ""],
    [raises |-> FALSE, status |-> 200, json_ok |-> TRUE,  has_cc |-> FALSE, country_code |-> ""],
    [raises |-> FALSE, status |-> 200, json_ok |-> TRUE,  has_cc |-> TRUE,  country_code |-> ""],
    [raises |-> FALSE, status |-> 200, json_ok |-> TRUE,  has_cc |-> TRUE,  country_code |-> "FR"],
    [raises |-> FALSE, status |-> 200, json_ok |-> TRUE,  has_cc |-> TRUE,  country_code |-> "DE"],
    [raises |-> FALSE, status |-> 200, json_ok |-> TRUE,  has_cc |-> TRUE,  country_code |-> ListCode] }

NoResponse == [raises |-> FALSE, status |-> 0, json_ok |-> FALSE, has_cc |-> FALSE, country_code |-> ""]

(***************************************************************************)
(* Python helpers.                                                         *)
(***************************************************************************)
\* code-point order of the strings that occur as titles and partner names
StrRank(s) ==
  CASE s = ""  -> 0
    [] s = "A" -> 1
    [] s = "B" -> 2
    [] s = "F" -> 3
    [] s = "L" -> 4
    [] s = "M" -> 5
    [] s = "P" -> 6

\* inst_id.rsplit("/", 1)[-1]
ShortId(inst_id) ==
  LET slashes == {i \in 1..Len(inst_id) : inst_id[i] = "/"}
  IN IF slashes = {} THEN inst_id
     ELSE LET last == CHOOSE i \in slashes : \A j \in slashes : j <= i
          IN SubSeq(inst_id, last + 1, Len(inst_id))

RECURSIVE AllInstitutions(_)
\* the institutions of a work in the order of
\*   for auth in authorships: for inst in auth.get("institutions") or []
AllInstitutions(authorships) ==
  IF authorships = <<>> THEN <<>>
  ELSE Head(authorships) \o AllInstitutions(Tail(authorships))

\* variant: any institution counts as the target
has_polito_any_institution(work) ==
  \E a \in 1..Len(work.authorships) :
    \E i \in 1..Len(work.authorships[a]) : TRUE

has_polito(work) ==
  \E a \in 1..Len(work.authorships) :
    \E i \in 1..Len(work.authorships[a]) :
      work.authorships[a][i].ror = ROR_POLITO

\* variant: the collecting loop does not skip the target's institutions
IsExternalAlways(inst) == TRUE

\* the test "inst.get('ror') == ROR_POLITO: continue" of the collecting loop
IsExternal(inst) == inst.ror # ROR_POLITO

\* work.get("display_name") or work.get("title")
WorkTitle(work) == IF work.display_name # "" THEN work.display_name ELSE work.title

EmptyCache == [s \in {} |-> ""]

CachePut(cache, short_id, cc) ==
  [s \in DOMAIN cache \cup {short_id} |-> IF s = short_id THEN cc ELSE cache[s]]

(***************************************************************************)
(* get_institution_country_code                                            *)
(***************************************************************************)
\* variant: the result of a successful lookup is not stored
TryLookupNoStore(short_id, cache, resp) ==
  IF resp.raises
    THEN [exc |-> TRUE, returned |-> FALSE, ret |-> "", cache |-> cache]
  ELSE IF resp.status = 200
    THEN IF ~resp.json_ok
           THEN [exc |-> TRUE, returned |-> FALSE, ret |-> "", cache |-> cache]
           ELSE LET cc == IF resp.has_cc THEN resp.country_code ELSE ""
                IN [exc |-> FALSE, returned |-> TRUE, ret |-> cc, cache |-> cache]
  ELSE [exc |-> FALSE, returned |-> FALSE, ret |-> "", cache |-> cache]

\* variant: a response with a non-success status is stored as an empty code
TryLookupStoreFailure(short_id, cache, resp) ==
  IF resp.raises
    THEN [exc |-> TRUE, returned |-> FALSE, ret |-> "", cache |-> cache]
  ELSE IF resp.status = 200
    THEN IF ~resp.json_ok
           THEN [exc |-> TRUE, returned |-> FALSE, ret |-> "", cache |-> cache]
           ELSE LET cc == IF resp.has_cc THEN resp.country_code ELSE ""
                IN [exc |-> FALSE, returned |-> TRUE, ret |-> cc,
                    cache |-> CachePut(cache, short_id, cc)]
  ELSE [exc |-> FALSE, returned |-> TRUE, ret |-> "",
        cache |-> CachePut(cache, short_id, "")]

\* the body of the try block: the request, the status test, the parse and
\* the cache store.  exc: an exception left the block; returned: the block
\* executed its return statement.
TryLookup(short_id, cache, resp) ==
  IF resp.raises
    THEN [exc |-> TRUE, returned |-> FALSE, ret |-> "", cache |-> cache]
  ELSE IF resp.status = 200
    THEN IF ~resp.json_ok
           THEN [exc |-> TRUE, returned |-> FALSE, ret |-> "", cache |-> cache]
           ELSE LET cc == IF resp.has_cc THEN resp.country_code ELSE ""
                IN [exc |-> FALSE, returned |-> TRUE, ret |-> cc,
                    cache |-> CachePut(cache, short_id, cc)]
  ELSE [exc |-> FALSE, returned |-> FALSE, ret |-> "", cache |-> cache]

\* "except Exception": every exception of the try block is caught
ExceptCatches(resp) == TRUE

\* variant: the cache is consulted before the embedded country code
get_institution_country_code_cache_first(inst, cache, resp) ==
  IF inst.id # <<>> /\ ShortId(inst.id) \in DOMAIN cache
    THEN [ret |-> cache[ShortId(inst.id)], cache |-> cache, called |-> FALSE, raised |-> FALSE]
  ELSE IF inst.country_code # ""
    THEN [ret |-> inst.country_code, cache |-> cache, called |-> FALSE, raised |-> FALSE]
  ELSE IF inst.id = <<>>
    THEN [ret |-> "", cache |-> cache, called |-> FALSE, raised |-> FALSE]
  ELSE LET t == TryLookup(ShortId(inst.id), cache, resp) IN
    IF t.exc
      THEN [ret |-> "", cache |-> t.cache, called |-> TRUE, raised |-> ~ExceptCatches(resp)]
    ELSE IF t.returned
      THEN [ret |-> t.ret, cache |-> t.cache, called |-> TRUE, raised |-> FALSE]
    ELSE [ret |-> "", cache |-> t.cache, called |-> TRUE, raised |-> FALSE]

\* result: ret, the cache afterwards, whether the external lookup was issued,
\* whether an exception left the function
get_institution_country_code(inst, cache, resp) ==
  IF inst.country_code # ""
    THEN [ret |-> inst.country_code, cache |-> cache, called |-> FALSE, raised |-> FALSE]
  ELSE IF inst.id = <<>>
    THEN [ret |-> "", cache |-> cache, called |-> FALSE, raised |-> FALSE]
  ELSE LET short_id == ShortId(inst.id) IN
    IF short_id \in DOMAIN cache
      THEN [ret |-> cache[short_id], cache |-> cache, called |-> FALSE, raised |-> FALSE]
    ELSE LET t == TryLookup(short_id, cache, resp) IN
      IF t.exc
        THEN IF ExceptCatches(resp)
               THEN [ret |-> "", cache |-> t.cache, called |-> TRUE, raised |-> FALSE]
               ELSE [ret |-> "", cache |-> t.cache, called |-> TRUE, raised |-> TRUE]
      ELSE IF t.returned
        THEN [ret |-> t.ret, cache |-> t.cache, called |-> TRUE, raised |-> FALSE]
      ELSE [ret |-> "", cache |-> t.cache, called |-> TRUE, raised |-> FALSE]

(***************************************************************************)
(* Sorting: list.sort(key, reverse=True) and sorted(..., reverse=True) are *)
(* stable, so items with equal keys keep their input order.  gt[i][j] is   *)
(* "key(s[i]) > key(s[j])".                                                *)
(***************************************************************************)
SortReverse(s, gt) ==
  LET pos(i) == 1 + Cardinality({j \in 1..Len(s) :
                       \/ gt[j][i]
                       \/ (~gt[i][j] /\ ~gt[j][i] /\ j < i)})
  IN [p \in 1..Len(s) |-> s[CHOOSE i \in 1..Len(s) : pos(i) = p]]

(***************************************************************************)
(* build_all_datasets                                                      *)
(***************************************************************************)
\* variant: only a missing identifier is skipped
SkipWorkIdMissingOnly(work_id, seen_ids) == work_id = ""

\* "if not work_id or work_id in seen_ids: continue"
SkipWorkId(work_id, seen_ids) == work_id = "" \/ work_id \in seen_ids

DatasetRecord(work) ==
  [dataset_id |-> work.id, title |-> WorkTitle(work), year |-> work.publication_year]

RECURSIVE CollectDatasets(_, _, _, _)
\* the loop over works: all_datasets and seen_ids after the works from i on
CollectDatasets(ws, i, seen_ids, datasets) ==
  IF i > Len(ws) THEN datasets
  ELSE IF ~has_polito(ws[i]) THEN CollectDatasets(ws, i + 1, seen_ids, datasets)
  ELSE IF SkipWorkId(ws[i].id, seen_ids) THEN CollectDatasets(ws, i + 1, seen_ids, datasets)
  ELSE CollectDatasets(ws, i + 1, seen_ids \cup {ws[i].id},
                       Append(datasets, DatasetRecord(ws[i])))

\* key (d.get("year") or 0, d.get("title") or "")
DatasetGt(a, b) ==
  \/ a.year > b.year
  \/ (a.year = b.year /\ StrRank(a.title) > StrRank(b.title))

build_all_datasets(ws) ==
  LET ds == CollectDatasets(ws, 1, {}, <<>>)
  IN SortReverse(ds, [i \in 1..Len(ds) |-> [j \in 1..Len(ds) |-> DatasetGt(ds[i], ds[j])]])

(***************************************************************************)
(* build_collaborations: adding the records of one work                    *)
(***************************************************************************)
\* position of the bucket of cc in by_country, 0 when "cc not in by_country"
BucketIndex(buckets, cc) ==
  IF \E i \in 1..Len(buckets) : buckets[i].country_code = cc
    THEN CHOOSE i \in 1..Len(buckets) : buckets[i].country_code = cc
    ELSE 0

AppendRecord(buckets, cc, rec) ==
  LET created == IF BucketIndex(buckets, cc) = 0
                   THEN Append(buckets, [country_code |-> cc, collaborations |-> <<>>])
                   ELSE buckets
      i == BucketIndex(created, cc)
  IN [created EXCEPT ![i].collaborations = Append(@, rec)]

\* inst.get("id") as a member of the key tuple: None is kept apart from ""
InstGetId(inst) == <<inst.id_none, inst.id>>

\* "if key in seen_for_work_country: continue"
KeySeen(key, seen_for_work_country) == key \in seen_for_work_country

RECURSIVE AddPairs(_, _, _, _, _)
\* the loop "for inst, cc in external_pairs" for the work at position w;
\* acc holds by_country, the log of the appended (work, institution, cc) and
\* whether "key in seen_for_work_country" raised TypeError (the key tuple is
\* hashed, and a tuple that holds a list cannot be), which ends the loop
AddPairs(work, w, pairs, seen_for_work_country, acc) ==
  IF pairs = <<>> THEN acc
  ELSE LET inst == Head(pairs).inst
           cc   == Head(pairs).cc
           key  == <<work.id, InstGetId(inst), cc>>
       IN IF ~Hashable(cc)
            THEN [acc EXCEPT !.raised = TRUE]
          ELSE IF KeySeen(key, seen_for_work_country)
            THEN AddPairs(work, w, Tail(pairs), seen_for_work_country, acc)
            ELSE AddPairs(work, w, Tail(pairs), seen_for_work_country \cup {key},
                   [by_country |-> AppendRecord(acc.by_country, cc,
                        [partner |-> inst.display_name, dataset_id |-> work.id,
                         title |-> WorkTitle(work), year |-> work.publication_year]),
                    emitted |-> Append(acc.emitted, [w |-> w, inst |-> inst, cc |-> cc]),
                    raised |-> FALSE])

(***************************************************************************)
(* main: the report built from the aggregate                               *)
(***************************************************************************)
\* country_map.get(cc, {}) and the "country" field of the entry, for a
\* data/all_country_codes.csv with rows for FR and IT
CountryInfo(cc) ==
  IF cc = "FR" THEN [name |-> "France", latitude |-> 46, longitude |-> 2, coords |-> <<46, 2>>]
  ELSE IF cc = "IT" THEN [name |-> "Italy", latitude |-> 41, longitude |-> 12, coords |-> <<41, 12>>]
  ELSE [name |-> cc, latitude |-> 0, longitude |-> 0, coords |-> <<0, 0>>]

\* key (c.get("year") or 0, c.get("partner") or "")
CollabGt(a, b) ==
  \/ a.year > b.year
  \/ (a.year = b.year /\ StrRank(a.partner) > StrRank(b.partner))

\* variant: the country sort without reverse=True
CountryGtAscending(a, b) == a.collaborations_count < b.collaborations_count

\* key x["collaborations_count"]
CountryGt(a, b) == a.collaborations_count > b.collaborations_count

ReportEntry(payload) ==
  [country_code |-> payload.country_code,
   collaborations_count |-> Len(payload.collaborations),
   collaborations |->
     LET cs == payload.collaborations
     IN SortReverse(cs, [i \in 1..Len(cs) |-> [j \in 1..Len(cs) |-> CollabGt(cs[i], cs[j])]]),
   country |-> CountryInfo(payload.country_code)]

BuildReport(data_by_country) ==
  LET es == [i \in 1..Len(data_by_country) |-> ReportEntry(data_by_country[i])]
  IN SortReverse(es, [i \in 1..Len(es) |-> [j \in 1..Len(es) |-> CountryGt(es[i], es[j])]])

(***************************************************************************)
(* State                                                                   *)
(***************************************************************************)
VARIABLES
  works,               \* the list loaded from polito_works.json
  pc,                  \* "datasets", "collab", "done", "aborted"
  wi,                  \* position in works of the work being aggregated
  k,                   \* position of the next institution of that work
  inst_country_cache,  \* the resolver cache of the run
  external_pairs,      \* (institution, country_code) pairs of the current work
  by_country,          \* the aggregate, in insertion order
  result,              \* the report written by main of build_collaborations
  all_datasets,        \* the report written by main of build_all_datasets
  emitted,             \* log: one entry per record appended to by_country
  lookup               \* the last call of get_institution_country_code for the current work

vars == <<works, pc, wi, k, inst_country_cache, external_pairs, by_country,
          result, all_datasets, emitted, lookup>>

NoLookup == [active |-> FALSE, inst |-> Polito, called |-> FALSE,
             resp |-> NoResponse, ret |-> ""]

WorkLists == UNION {[1..n -> WorkPool] : n \in 0..MaxWorks}

Init ==
  /\ works \in WorkLists
  /\ pc = "datasets"
  /\ wi = 1
  /\ k = 1
  /\ inst_country_cache = EmptyCache
  /\ external_pairs = <<>>
  /\ by_country = <<>>
  /\ result = <<>>
  /\ all_datasets = <<>>
  /\ emitted = <<>>
  /\ lookup = NoLookup

CurInsts == AllInstitutions(works[wi].authorships)

\* "external_pairs = []" runs when the collecting loop of a work starts
CurPairs == IF k = 1 THEN <<>> ELSE external_pairs

\* build_all_datasets.py: main
RunAllDatasets ==
  /\ pc = "datasets"
  /\ all_datasets' = build_all_datasets(works)
  /\ pc' = "collab"
  /\ UNCHANGED <<works, wi, k, inst_country_cache, external_pairs, by_country,
                 result, emitted, lookup>>

\* "if not has_polito: continue"
SkipWork ==
  /\ pc = "collab"
  /\ wi <= Len(works)
  /\ ~has_polito(works[wi])
  /\ wi' = wi + 1
  /\ UNCHANGED <<works, pc, k, inst_country_cache, external_pairs, by_country,
                 result, all_datasets, emitted, lookup>>

\* collecting loop, an institution of the target: "continue"
SkipPolito ==
  /\ pc = "collab"
  /\ wi <= Len(works)
  /\ has_polito(works[wi])
  /\ k <= Len(CurInsts)
  /\ ~IsExternal(CurInsts[k])
  /\ k' = k + 1
  /\ external_pairs' = CurPairs
  /\ lookup' = NoLookup
  /\ UNCHANGED <<works, pc, wi, inst_country_cache, by_country,
                 result, all_datasets, emitted>>

\* collecting loop, an external institution: resolve its country code
ResolveInstitution ==
  /\ pc = "collab"
  /\ wi <= Len(works)
  /\ has_polito(works[wi])
  /\ k <= Len(CurInsts)
  /\ IsExternal(CurInsts[k])
  /\ \E resp \in Responses :
       LET inst == CurInsts[k]
           r == get_institution_country_code(inst, inst_country_cache, resp)
       IN /\ inst_country_cache' = r.cache
          /\ lookup' = [active |-> TRUE, inst |-> inst, called |-> r.called,
                        resp |-> IF r.called THEN resp ELSE NoResponse,
                        ret |-> r.ret]
          /\ IF r.raised
               THEN /\ pc' = "aborted"
                    /\ k' = k
                    /\ external_pairs' = CurPairs
               ELSE /\ pc' = pc
                    /\ k' = k + 1
                    /\ external_pairs' =
                         IF r.ret # ""
                           THEN Append(CurPairs, [inst |-> inst, cc |-> r.ret])
                           ELSE CurPairs
  /\ UNCHANGED <<works, wi, by_country, result, all_datasets, emitted>>

\* after the collecting loop: "if not external_pairs: continue", else add
\* the records of the work; the run ends when the loop raises
AddWork ==
  /\ pc = "collab"
  /\ wi <= Len(works)
  /\ has_polito(works[wi])
  /\ k > Len(CurInsts)
  /\ LET acc == AddPairs(works[wi], wi, external_pairs, {},
                         [by_country |-> by_country, emitted |-> emitted,
                          raised |-> FALSE])
     IN /\ by_country' = acc.by_country
        /\ emitted' = acc.emitted
        /\ IF acc.raised
             THEN \* the TypeError leaves build_collaborations and main
                  pc' = "aborted" /\ wi' = wi /\ k' = k
             ELSE pc' = pc /\ wi' = wi + 1 /\ k' = 1
  /\ lookup' = NoLookup
  /\ UNCHANGED <<works, inst_country_cache, external_pairs, result, all_datasets>>

\* build_collaborations returns; main builds, sorts and writes the report
WriteReport ==
  /\ pc = "collab"
  /\ wi > Len(works)
  /\ result' = BuildReport(by_country)
  /\ pc' = "done"
  /\ UNCHANGED <<works, wi, k, inst_country_cache, external_pairs, by_country,
                 all_datasets, emitted, lookup>>

Next ==
  \/ RunAllDatasets
  \/ SkipWork
  \/ SkipPolito
  \/ ResolveInstitution
  \/ AddWork
  \/ WriteReport

Spec == Init /\ [][Next]_vars

TypeOK ==
  /\ pc \in {"datasets", "collab", "done", "aborted"}
  /\ wi \in 1..(Len(works) + 1)
  /\ k \in 1..5
  /\ DOMAIN inst_country_cache \subseteq {ShortId(i.id) : i \in InstPool}
  /\ \A n \in 1..Len(emitted) : emitted[n].w \in 1..Len(works)

\* the log has one entry per record of the aggregate, bucket by bucket and in order
LogMatchesAggregate ==
  \A b \in 1..Len(by_country) :
    LET cc == by_country[b].country_code
        log == SelectSeq(emitted, LAMBDA e : e.cc = cc)
        recs == by_country[b].collaborations
    IN /\ Len(log) = Len(recs)
       /\ Len(recs) >= 1
       /\ \A n \in 1..Len(recs) :
            /\ recs[n].partner = log[n].inst.display_name
            /\ recs[n].dataset_id = works[log[n].w].id

(***************************************************************************)
(* Vocabulary of the properties                                            *)
(***************************************************************************)
\* the work has an institution whose registry identifier is the marker
HasTarget(work) ==
  \E n \in 1..Len(AllInstitutions(work.authorships)) :
    AllInstitutions(work.authorships)[n].ror = ROR_POLITO

\* the work has institutions and all of them match the marker
OnlyTarget(work) ==
  /\ AllInstitutions(work.authorships) # <<>>
  /\ \A n \in 1..Len(AllInstitutions(work.authorships)) :
       AllInstitutions(work.authorships)[n].ror = ROR_POLITO

\* log entries of the records generated from the work at position w
EmittedFor(w) == {n \in 1..Len(emitted) : emitted[n].w = w}

DatasetsWithId(id) == {p \in 1..Len(all_datasets) : all_datasets[p].dataset_id = id}

\* C1: within a country bucket no two records are generated from the same
\* (work identifier, institution identifier, country code), also when the
\* work identifier occurs in several elements of the input (stated for the
\* works that have an identifier).
C1_TripleAtMostOnce ==
  \A m, n \in 1..Len(emitted) :
    (/\ m # n
     /\ works[emitted[m].w].id # ""
     /\ emitted[m].cc = emitted[n].cc
     /\ InstGetId(emitted[m].inst) = InstGetId(emitted[n].inst))
      => works[emitted[m].w].id # works[emitted[n].w].id

\* C2 as stated: a work whose institutions all match the marker gets no
\* collaboration record and has a dataset record.
C2_OnlyTargetInDatasets ==
  \A w \in 1..Len(works) :
    OnlyTarget(works[w]) =>
      /\ EmittedFor(w) = {}
      /\ pc # "datasets" => DatasetsWithId(works[w].id) # {}

\* C2 amended: a work with a present identifier whose institutions all match
\* the marker gets no collaboration record and has a dataset record.
C2_OnlyTargetWithIdInDatasets ==
  \A w \in 1..Len(works) :
    (OnlyTarget(works[w]) /\ works[w].id # "") =>
      /\ EmittedFor(w) = {}
      /\ pc # "datasets" => DatasetsWithId(works[w].id) # {}

\* an only-target work with an identifier was passed by the aggregator while
\* another work produced records
C2_Witness ==
  /\ pc = "done"
  /\ emitted # <<>>
  /\ \E w \in 1..Len(works) :
       /\ OnlyTarget(works[w])
       /\ works[w].id # ""
       /\ EmittedFor(w) = {}
       /\ DatasetsWithId(works[w].id) # {}

\* C3: a work without target institution produces nothing; every
\* collaboration record comes from a work with a target institution and a
\* non-target institution with a non-empty resolved code; every dataset
\* record comes from a work with a target institution.
C3_OnlyTargetWorksEmit ==
  /\ \A n \in 1..Len(emitted) :
       LET work == works[emitted[n].w]
           insts == AllInstitutions(work.authorships)
       IN /\ HasTarget(work)
          /\ emitted[n].cc # ""
          /\ emitted[n].inst.ror # ROR_POLITO
          /\ \E i \in 1..Len(insts) : insts[i] = emitted[n].inst
  /\ \A b \in 1..Len(by_country) :
       Len(by_country[b].collaborations) =
         Cardinality({n \in 1..Len(emitted) : emitted[n].cc = by_country[b].country_code})
  /\ \A p \in 1..Len(all_datasets) :
       \E w \in 1..Len(works) :
         /\ HasTarget(works[w])
         /\ works[w].id = all_datasets[p].dataset_id
         /\ WorkTitle(works[w]) = all_datasets[p].title
         /\ works[w].publication_year = all_datasets[p].year
  /\ \A w \in 1..Len(works) : ~HasTarget(works[w]) => EmittedFor(w) = {}

\* a work without target but with a resolvable external institution was
\* passed, and another work produced a record and a dataset
C3_Witness ==
  /\ pc = "done"
  /\ emitted # <<>>
  /\ all_datasets # <<>>
  /\ \E w \in 1..Len(works) :
       /\ ~HasTarget(works[w])
       /\ works[w].id # ""
       /\ \E i \in 1..Len(AllInstitutions(works[w].authorships)) :
            AllInstitutions(works[w].authorships)[i].country_code # ""
       /\ DatasetsWithId(works[w].id) = {}

\* positions of the works with identifier id
Occurrences(id) == {w \in 1..Len(works) : works[w].id = id}

TargetOccurrences(id) == {w \in Occurrences(id) : HasTarget(works[w])}

First(S) == CHOOSE w \in S : \A v \in S : w <= v

\* identifiers that pass the target test of the deduplicator
DatasetIds == {works[w].id : w \in {v \in 1..Len(works) : HasTarget(works[v]) /\ works[v].id # ""}}

\* C4 as stated: one dataset record per identifier, built from the first
\* occurrence of the identifier in the input; none for a missing identifier.
C4_FirstOccurrenceWins ==
  pc # "datasets" =>
    /\ \A id \in DatasetIds :
         /\ Cardinality(DatasetsWithId(id)) = 1
         /\ \A p \in DatasetsWithId(id) :
              all_datasets[p] = DatasetRecord(works[First(Occurrences(id))])
    /\ DatasetsWithId("") = {}

\* C4 amended: one dataset record per identifier of a work with a target
\* institution, built from the first occurrence that has a target
\* institution; no other record, none for a missing identifier.
C4_FirstTargetOccurrenceWins ==
  pc # "datasets" =>
    /\ \A id \in DatasetIds :
         /\ Cardinality(DatasetsWithId(id)) = 1
         /\ \A p \in DatasetsWithId(id) :
              all_datasets[p] = DatasetRecord(works[First(TargetOccurrences(id))])
    /\ \A p \in 1..Len(all_datasets) : all_datasets[p].dataset_id \in DatasetIds
    /\ DatasetsWithId("") = {}

\* an identifier recurs in works with a target institution and different
\* descriptions, and a work without identifier has a target institution
C4_Witness ==
  /\ pc # "datasets"
  /\ \E v, w \in 1..Len(works) :
       /\ v < w
       /\ works[v].id = works[w].id
       /\ works[v].id # ""
       /\ HasTarget(works[v])
       /\ HasTarget(works[w])
       /\ DatasetRecord(works[v]) # DatasetRecord(works[w])
       /\ Cardinality(DatasetsWithId(works[v].id)) = 1

(***************************************************************************)
(* Steps, as seen from a pair of successive states                         *)
(***************************************************************************)
\* the step is a call of get_institution_country_code; lookup' describes it
ResolveStep == pc = "collab" /\ lookup'.active

\* the step runs the adding loop for the work at position wi (it is the only
\* step possible once the institutions of the work are collected)
AddStep ==
  /\ pc = "collab"
  /\ wi <= Len(works)
  /\ has_polito(works[wi])
  /\ k > Len(CurInsts)

\* the lookup did not give a successful, well-formed response
Failed(resp) == resp.raises \/ resp.status # 200 \/ ~resp.json_ok

BucketLen(buckets, cc) ==
  IF BucketIndex(buckets, cc) = 0 THEN 0
  ELSE Len(buckets[BucketIndex(buckets, cc)].collaborations)

\* C5: when a work lists the same external institution (same id) more than
\* once with the same non-empty resolved country code (a string), processing
\* the work appends exactly one record for that (work, institution, country).
C5_OneRecordPerTriple ==
  [][AddStep =>
       \A i, j \in 1..Len(external_pairs) :
         (/\ i < j
          /\ InstGetId(external_pairs[i].inst) = InstGetId(external_pairs[j].inst)
          /\ external_pairs[i].cc = external_pairs[j].cc
          /\ Hashable(external_pairs[i].cc))
           => LET id == InstGetId(external_pairs[i].inst)
                  cc == external_pairs[i].cc
              IN /\ Cardinality({n \in (Len(emitted) + 1)..Len(emitted') :
                                   /\ emitted'[n].w = wi
                                   /\ InstGetId(emitted'[n].inst) = id
                                   /\ emitted'[n].cc = cc}) = 1
                 /\ BucketLen(by_country', cc) - BucketLen(by_country, cc) =
                      Cardinality({InstGetId(external_pairs[n].inst) :
                                     n \in {m \in 1..Len(external_pairs) :
                                              external_pairs[m].cc = cc}})]_vars

\* position of the run: script phase, work, institution
Progress ==
  (CASE pc = "datasets" -> 0 [] pc = "collab" -> 1 [] pc = "aborted" -> 1 [] pc = "done" -> 2)
    * 10000 + wi * 100 + k

\* some statement of the scripts can execute: the dataset script has not
\* run, the aggregation loop has ended, or it is at a work to skip, at an
\* institution to collect, or at the end of the institutions of a work
StepPossible ==
  \/ pc = "datasets"
  \/ pc = "collab" /\ wi > Len(works)
  \/ pc = "collab" /\ wi <= Len(works) /\ ~has_polito(works[wi])
  \/ pc = "collab" /\ wi <= Len(works) /\ has_polito(works[wi]) /\ k <= Len(CurInsts)
  \/ pc = "collab" /\ wi <= Len(works) /\ has_polito(works[wi]) /\ k > Len(CurInsts)

\* C6: no lookup outcome aborts the run: a failed lookup, a response without
\* country code and an institution without id give the empty string, every
\* work is processed and the run ends with a report (until the report is
\* written a step is possible, and every step advances the position).
C6_LookupNeverAborts ==
  [][/\ pc' # "aborted"
     /\ ResolveStep =>
          /\ (lookup'.called /\ (Failed(lookup'.resp) \/ ~lookup'.resp.has_cc))
               => lookup'.ret = ""
          /\ (lookup'.inst.country_code = "" /\ lookup'.inst.id = <<>>)
               => lookup'.ret = ""
          /\ pc' = "collab"
          /\ k' = k + 1
     /\ pc' = "done" => wi' = Len(works') + 1
     /\ pc' # "done" => StepPossible'
     /\ Progress' > Progress]_vars

\* C7: the report lists the countries by collaboration count, descending,
\* and each count is the length of the entry's list.
C7_CountriesByCountDescending ==
  pc = "done" =>
    /\ \A i \in 1..(Len(result) - 1) :
         result[i].collaborations_count >= result[i + 1].collaborations_count
    /\ \A i \in 1..Len(result) :
         result[i].collaborations_count = Len(result[i].collaborations)
    /\ Len(result) = Len(by_country)
    /\ \A b \in 1..Len(by_country) :
         \E i \in 1..Len(result) :
           /\ result[i].country_code = by_country[b].country_code
           /\ result[i].collaborations_count = Len(by_country[b].collaborations)

\* the aggregate holds a smaller country before a larger one
C7_Witness ==
  /\ pc = "done"
  /\ Len(by_country) >= 2
  /\ Len(by_country[1].collaborations) < Len(by_country[2].collaborations)
  /\ result[1].country_code = by_country[2].country_code

\* C8: a successful lookup stores its result under the short id; cache
\* entries never change; a later resolve of an institution without embedded
\* code and with a cached short id returns the cached value without a call.
C8_SuccessfulLookupCached ==
  [][/\ \A s \in DOMAIN inst_country_cache :
          /\ s \in DOMAIN inst_country_cache'
          /\ inst_country_cache'[s] = inst_country_cache[s]
     /\ ResolveStep =>
          /\ (lookup'.called /\ ~Failed(lookup'.resp)) =>
               /\ ShortId(lookup'.inst.id) \in DOMAIN inst_country_cache'
               /\ inst_country_cache'[ShortId(lookup'.inst.id)] =
                    (IF lookup'.resp.has_cc THEN lookup'.resp.country_code ELSE "")
               /\ lookup'.ret = inst_country_cache'[ShortId(lookup'.inst.id)]
          /\ (/\ lookup'.inst.country_code = ""
              /\ lookup'.inst.id # <<>>
              /\ ShortId(lookup'.inst.id) \in DOMAIN inst_country_cache) =>
               /\ ~lookup'.called
               /\ lookup'.ret = inst_country_cache[ShortId(lookup'.inst.id)]
               /\ inst_country_cache' = inst_country_cache]_vars

\* a resolve was answered from the cache with an empty code
C8_Witness ==
  /\ lookup.active
  /\ ~lookup.called
  /\ lookup.inst.country_code = ""
  /\ lookup.inst.id # <<>>
  /\ ShortId(lookup.inst.id) \in DOMAIN inst_country_cache
  /\ inst_country_cache[ShortId(lookup.inst.id)] = ""
  /\ lookup.ret = ""

\* C9: a failed lookup returns the empty string and leaves the cache
\* unchanged; a resolve of an institution without embedded code whose short
\* id is not cached issues the lookup.
C9_FailedLookupNotCached ==
  [][ResolveStep =>
       /\ (lookup'.called /\ Failed(lookup'.resp)) =>
            /\ lookup'.ret = ""
            /\ inst_country_cache' = inst_country_cache
            /\ ShortId(lookup'.inst.id) \notin DOMAIN inst_country_cache'
       /\ (/\ lookup'.inst.country_code = ""
           /\ lookup'.inst.id # <<>>
           /\ ShortId(lookup'.inst.id) \notin DOMAIN inst_country_cache) =>
            lookup'.called]_vars

\* a lookup was issued for a short id whose earlier lookup in the same work
\* had failed
C9_Witness ==
  /\ pc = "collab"
  /\ wi <= Len(works)
  /\ lookup.active
  /\ lookup.called
  /\ ~Failed(lookup.resp)
  /\ \E j \in 1..(k - 2) :
       /\ CurInsts[j].ror # ROR_POLITO
       /\ CurInsts[j].country_code = ""
       /\ CurInsts[j].id # <<>>
       /\ ShortId(CurInsts[j].id) = ShortId(lookup.inst.id)

\* C10: an institution with an embedded country code resolves to that code
\* without lookup and without change of the cache.
C10_EmbeddedCodeFirst ==
  [][(ResolveStep /\ lookup'.inst.country_code # "") =>
       /\ lookup'.ret = lookup'.inst.country_code
       /\ ~lookup'.called
       /\ inst_country_cache' = inst_country_cache]_vars

\* the embedded code was returned while the cache held another code for the
\* short id of the institution
C10_Witness ==
  /\ lookup.active
  /\ lookup.inst.country_code # ""
  /\ ~lookup.called
  /\ lookup.ret = lookup.inst.country_code
  /\ ShortId(lookup.inst.id) \in DOMAIN inst_country_cache
  /\ inst_country_cache[ShortId(lookup.inst.id)] # lookup.inst.country_code

====
